---- MODULE Spec2Model ----
(***************************************************************************)
(* A model of the rust-executor service (services/rust-executor/src/main.rs):*)
(* the Execute pipeline (execute_code, create_restricted_code,              *)
(* compile_and_run) and the Validate pipeline (validate_syntax), with the   *)
(* temporary directories they create, the cargo and artifact processes they *)
(* start, and the two tokio time budgets.                                   *)
(*                                                                         *)
(* Time is abstract: a time budget that has been armed may elapse at any   *)
(* step at which the awaited future is still pending. A subprocess is not  *)
(* killed when the future awaiting it is dropped (kill_on_drop is never    *)
(* set), so it keeps running after its request has returned.               *)
(***************************************************************************)
EXTENDS Integers, Sequences, FiniteSets, TLC

\* ------------------------------------------------------------ configuration

\* RustExecutor::new
max_execution_time == 30
max_code_size_kb == 50
\* the ceiling of the timeout filter in execute_code
TimeoutCeiling == 60
\* Duration::from_secs(30) around cargo build, Duration::from_secs(10) around cargo check
BuildBudget == 30
CheckBudget == 10
\* std::process::exit(124) of the generated timeout checker, and the code compared
\* against in compile_and_run
WatchdogExitCode == 124
StatusSentinel == 124
\* std::process::exit(1) of the generated failure boundary
BoundaryExitCode == 1

\* ------------------------------------------------------------------ bounds

\* the longest input text, in pipe-sized chunks
MaxInputLen == 2
\* how many chunks the stdin pipe of a child holds before write_all suspends
PipeCapacity == 1

\* Option<T>: None is the empty sequence, Some(x) the sequence of x alone
NoneOpt == <<>>
Some(x) == <<x>>
IsSome(o) == o # <<>>
Unwrap(o) == o[1]
\* no directory
NoDir == "NoDir"
Reqs == {"r1", "r2"}
\* the names TempDir::new draws from
DirNames == {"tmpA", "tmpB"}

\* --------------------------------------------------------------- snippets

\* The marker create_restricted_code and validate_syntax search for.
Marker == "fn main()"

\* A snippet is its text (a sequence of tokens), its length in bytes, and what
\* the text means to rustc and to the machine: whether it compiles (clean, with
\* warnings, or not at all) and what the program does when run.
Behaviours == {"exit0", "exit1", "exit124", "panic", "abort", "loop"}

\* whether a token holds the marker as a substring: the entry point itself does,
\* and so does a comment that mentions it
TokenContains(token, marker) ==
    \/ token = marker
    \/ token = "// fn main()" /\ marker = "fn main()"

\* Contains that looks for an item of that text rather than for a substring
Contains_Exact(text, marker) ==
    \E i \in 1..Len(text) : text[i] = marker

\* str::contains on the token sequence
Contains(text, marker) ==
    \E i \in 1..Len(text) : TokenContains(text[i], marker)

\* whether the text really defines an entry point
DefinesMain(text) ==
    \E i \in 1..Len(text) : text[i] = "fn main()"

Snippet(text, len, compiles, run) ==
    [text |-> text, len |-> len, compiles |-> compiles, run |-> run]

\* the snippets of ordinary size: what a snippet does when run matters only if
\* it compiles, and a text whose only entry point is in a comment never links
RunSnippets ==
    {Snippet(t, 10, "clean", b) : t \in {<<"stmt">>, <<"fn main()", "stmt">>},
                                  b \in Behaviours}
    \cup {Snippet(t, 10, c, "exit0") : t \in {<<"stmt">>, <<"fn main()", "stmt">>},
                                       c \in {"warn", "err"}}
    \cup {Snippet(<<"// fn main()", "stmt">>, 10, "clean", "exit0")}

\* snippets at and over the size ceiling
LargeSnippets ==
    {Snippet(<<"stmt">>, n, "clean", "exit0") : n \in {51200, 51201, 60000}}

AllSnippets ==
    RunSnippets \cup LargeSnippets

\* the timeout field of CodeExecutionRequest: Option<u64>
AllOverrides ==
    {NoneOpt} \cup {Some(t) : t \in {0, 1, 30, 60, 61, 3600}}

\* the inputData field: absent, or a text of so many chunks
AllInputs ==
    {NoneOpt} \cup {Some(n) : n \in 0..MaxInputLen}

ExecutionRequest(code, input_data, timeout) ==
    [code |-> code, input_data |-> input_data, timeout |-> timeout]

\* the Execute requests: every snippet, every override and every input, each
\* varied against a few of the others
AllExecutionRequests ==
    {ExecutionRequest(c, NoneOpt, NoneOpt) : c \in AllSnippets}
    \cup {ExecutionRequest(c, NoneOpt, t) :
            c \in {Snippet(<<"stmt">>, 10, "clean", "loop"),
                   Snippet(<<"fn main()", "stmt">>, 10, "clean", "exit0"),
                   Snippet(<<"stmt">>, 60000, "clean", "exit0")},
            t \in AllOverrides}
    \cup {ExecutionRequest(c, i, Some(1)) :
            c \in {Snippet(<<"stmt">>, 10, "clean", "exit0"),
                   Snippet(<<"fn main()", "stmt">>, 10, "clean", "loop")},
            i \in AllInputs}

\* ------------------------------------------------------ execute_code, top

\* ResolveTimeout with the ceiling itself refused (t < 60)
ResolveTimeout_Strict(timeout_override) ==
    IF IsSome(timeout_override) /\ Unwrap(timeout_override) < TimeoutCeiling
    THEN Unwrap(timeout_override)
    ELSE max_execution_time

\* timeout_override.filter(|&t| t <= 60).unwrap_or(self.max_execution_time)
ResolveTimeout(timeout_override) ==
    IF IsSome(timeout_override) /\ Unwrap(timeout_override) <= TimeoutCeiling
    THEN Unwrap(timeout_override)
    ELSE max_execution_time

\* CodeTooLarge with the ceiling itself refused (>=)
CodeTooLarge_AtCeiling(len) ==
    len >= max_code_size_kb * 1024

\* code.len() as f64 / 1024.0 > self.max_code_size_kb as f64, in bytes
CodeTooLarge(len) ==
    len > max_code_size_kb * 1024

\* create_restricted_code whose wrapper runs the snippet without catch_unwind
create_restricted_code_NoBoundary(user_code, timeout_seconds) ==
    IF Contains(user_code.text, Marker)
    THEN [snippet |-> user_code, imports |-> "exec", wrapped |-> FALSE,
          watchdog |-> NoneOpt, boundary |-> FALSE]
    ELSE [snippet |-> user_code, imports |-> "exec", wrapped |-> TRUE,
          watchdog |-> Some(timeout_seconds), boundary |-> FALSE]

\* create_restricted_code: the source unit written to src/main.rs
create_restricted_code(user_code, timeout_seconds) ==
    IF Contains(user_code.text, Marker)
    THEN [snippet |-> user_code, imports |-> "exec", wrapped |-> FALSE,
          watchdog |-> NoneOpt, boundary |-> FALSE]
    ELSE [snippet |-> user_code, imports |-> "exec", wrapped |-> TRUE,
          watchdog |-> Some(timeout_seconds), boundary |-> TRUE]

\* the full_code of validate_syntax
full_code(code) ==
    IF Contains(code.text, Marker)
    THEN [snippet |-> code, imports |-> "validate", wrapped |-> FALSE,
          watchdog |-> NoneOpt, boundary |-> FALSE]
    ELSE [snippet |-> code, imports |-> "validate", wrapped |-> TRUE,
          watchdog |-> NoneOpt, boundary |-> FALSE]

\* ------------------------------------------------------------------ state

VARIABLES
    req,                \* the request each handler task was called with
    pc,                 \* where each handler task stands
    execution_timeout,  \* execute_code's local of that name
    temp_dir,           \* the TempDir each task holds (NoDir: none)
    fs,                 \* the temporary directories and what they hold
    cargo,              \* the cargo process each task started
    child,              \* the artifact process each task started
    to_write,           \* chunks of input write_all has still to write
    timer,              \* the Duration of the tokio timeout a task awaits under
    result,             \* the response of a finished call
    history             \* the steps each handler task has taken, in order

vars ==
    <<req, pc, execution_timeout, temp_dir, fs, cargo, child, to_write, timer, result,
      history>>

NoReq == [kind |-> "none"]
NoResult == [kind |-> "none"]
\* a name no directory has had yet, and the name of a directory that was removed
Absent == [exists |-> FALSE, used |-> FALSE]
Removed == [exists |-> FALSE, used |-> TRUE]
NoProc == [state |-> "none"]

\* a directory TempDir::new has just created
EmptyDir ==
    [exists |-> TRUE, used |-> TRUE, src |-> FALSE, manifest |-> "none",
     main_rs |-> NoneOpt, target |-> NoneOpt]

Init ==
    /\ req = [r \in Reqs |-> NoReq]
    /\ pc = [r \in Reqs |-> "idle"]
    /\ execution_timeout = [r \in Reqs |-> 0]
    /\ temp_dir = [r \in Reqs |-> NoDir]
    /\ fs = [d \in DirNames |-> Absent]
    /\ cargo = [r \in Reqs |-> NoProc]
    /\ child = [r \in Reqs |-> NoProc]
    /\ to_write = [r \in Reqs |-> 0]
    /\ timer = [r \in Reqs |-> NoneOpt]
    /\ result = [r \in Reqs |-> NoResult]
    /\ history = [r \in Reqs |-> <<>>]

\* the handler task of r takes the step named
Log(r, step) ==
    history' = [history EXCEPT ![r] = Append(@, step)]

\* ---------------------------------------------------------- the responses

CodeExecutionResponse(output, error, execution_time, status) ==
    [kind |-> "execution", output |-> output, error |-> error,
     execution_time |-> execution_time, status |-> status]

CodeValidationResponse(is_valid, errors, warnings) ==
    [kind |-> "validation", is_valid |-> is_valid, errors |-> errors,
     warnings |-> warnings]

\* String::new()
EmptyString == [text |-> "", of |-> NoneOpt, ws |-> FALSE]
\* a message the service formats itself
Message(m) == [text |-> m, of |-> NoneOpt, ws |-> FALSE]
\* str::trim: the surrounding whitespace goes, the text stays
Trim(s) == [s EXCEPT !.ws = FALSE]

\* a `return` of execute_code: the response is built and the function's scope ends
ReturnFrom(r, response) ==
    /\ result' = [result EXCEPT ![r] = response]
    /\ pc' = [pc EXCEPT ![r] = "scope_end"]

\* the early error returns of execute_code after start_time is taken
ExecError(r, message) ==
    ReturnFrom(r, CodeExecutionResponse(EmptyString, Message(message), "elapsed", "error"))

\* ------------------------------------------------------------ execute_code

\* execute_code is called: the timeout is resolved and the size is checked
ExecuteCall(r, code, input_data, timeout_override) ==
    /\ pc[r] = "idle"
    /\ Log(r, "ExecuteCall")
    /\ req' = [req EXCEPT ![r] =
                 [kind |-> "execute", code |-> code, input_data |-> input_data,
                  timeout |-> timeout_override]]
    /\ execution_timeout' =
          [execution_timeout EXCEPT ![r] = ResolveTimeout(timeout_override)]
    /\ IF CodeTooLarge(code.len)
       THEN /\ result' = [result EXCEPT ![r] =
                 CodeExecutionResponse(EmptyString, Message("Code size exceeds maximum"),
                                       "0.0", "error")]
            /\ pc' = [pc EXCEPT ![r] = "scope_end"]
       ELSE /\ pc' = [pc EXCEPT ![r] = "temp_dir"]
            /\ UNCHANGED result
    /\ UNCHANGED <<temp_dir, fs, cargo, child, to_write, timer>>

\* TempDirNew with one fixed directory for every request, made if missing
TempDirNew_Fixed(r) ==
    /\ pc[r] = "temp_dir"
    /\ Log(r, "TempDirNew")
    /\ fs' = [fs EXCEPT !["tmpA"] = IF @.exists THEN @ ELSE EmptyDir]
    /\ temp_dir' = [temp_dir EXCEPT ![r] = "tmpA"]
    /\ pc' = [pc EXCEPT ![r] = "src_dir"]
    /\ UNCHANGED <<req, execution_timeout, cargo, child, to_write, timer, result>>

\* TempDir::new(): a directory under a random name that no directory has; the
\* names are drawn from so many that none is drawn twice
TempDirNew(r) ==
    /\ pc[r] = "temp_dir"
    /\ Log(r, "TempDirNew")
    /\ \/ \E d \in DirNames :
            /\ ~fs[d].exists /\ ~fs[d].used
            /\ fs' = [fs EXCEPT ![d] = EmptyDir]
            /\ temp_dir' = [temp_dir EXCEPT ![r] = d]
            /\ pc' = [pc EXCEPT ![r] = "src_dir"]
            /\ UNCHANGED result
       \/ /\ ExecError(r, "Failed to create temp directory")
          /\ UNCHANGED <<fs, temp_dir>>
    /\ UNCHANGED <<req, execution_timeout, cargo, child, to_write, timer>>

\* fs::create_dir_all(&src_dir)
CreateSrcDir(r) ==
    /\ pc[r] = "src_dir"
    /\ Log(r, "CreateSrcDir")
    /\ \/ /\ fs[temp_dir[r]].exists
          /\ fs' = [fs EXCEPT ![temp_dir[r]].src = TRUE]
          /\ pc' = [pc EXCEPT ![r] = "cargo_toml"]
          /\ UNCHANGED result
       \/ /\ ExecError(r, "Failed to create src directory")
          /\ UNCHANGED fs
    /\ UNCHANGED <<req, execution_timeout, temp_dir, cargo, child, to_write, timer>>

\* fs::write(project_path.join("Cargo.toml"), cargo_toml)
WriteCargoToml(r) ==
    /\ pc[r] = "cargo_toml"
    /\ Log(r, "WriteCargoToml")
    /\ \/ /\ fs[temp_dir[r]].exists
          /\ fs' = [fs EXCEPT ![temp_dir[r]].manifest = "rust_exec"]
          /\ pc' = [pc EXCEPT ![r] = "main_rs"]
          /\ UNCHANGED result
       \/ /\ ExecError(r, "Failed to create Cargo.toml")
          /\ UNCHANGED fs
    /\ UNCHANGED <<req, execution_timeout, temp_dir, cargo, child, to_write, timer>>

\* create_restricted_code and fs::write(main_rs_path, restricted_code)
WriteMainRs(r) ==
    /\ pc[r] = "main_rs"
    /\ Log(r, "WriteMainRs")
    /\ \/ /\ fs[temp_dir[r]].exists /\ fs[temp_dir[r]].src
          /\ fs' = [fs EXCEPT ![temp_dir[r]].main_rs =
                       Some(create_restricted_code(req[r].code, execution_timeout[r]))]
          /\ pc' = [pc EXCEPT ![r] = "compile"]
          /\ UNCHANGED result
       \/ /\ ExecError(r, "Failed to write main.rs")
          /\ UNCHANGED fs
    /\ UNCHANGED <<req, execution_timeout, temp_dir, cargo, child, to_write, timer>>

\* --------------------------------------------------------- compile_and_run

\* what compile_and_run returns, made into the response by execute_code
RunReturns(r, output, error, status) ==
    ReturnFrom(r, CodeExecutionResponse(output, error, "elapsed", status))

\* what rustc makes of a source unit: a unit without the generated entry point
\* and without one of its own does not link
RustcOutcome(unit) ==
    IF ~unit.wrapped /\ ~DefinesMain(unit.snippet.text)
    THEN "err"
    ELSE unit.snippet.compiles

\* timeout(30 s, Command::new("cargo") build ... .output()): the first poll
\* starts cargo in the project directory, or fails to
CargoBuildSpawn(r) ==
    /\ pc[r] = "compile"
    /\ Log(r, "CargoBuildSpawn")
    /\ \/ /\ cargo' = [cargo EXCEPT ![r] =
                 [state |-> "running", cmd |-> "build", cwd |-> temp_dir[r]]]
          /\ timer' = [timer EXCEPT ![r] = Some(BuildBudget)]
          /\ pc' = [pc EXCEPT ![r] = "await_build"]
          /\ UNCHANGED result
       \/ /\ RunReturns(r, EmptyString, Message("Failed to execute cargo build"), "error")
          /\ UNCHANGED <<cargo, timer>>
    /\ UNCHANGED <<req, execution_timeout, temp_dir, fs, child, to_write>>

\* the cargo process runs to its end (101 is cargo's code for a failure): it reads the manifest and src/main.rs of
\* its directory and, for a build that succeeds, writes target/release/main
CargoExit(r) ==
    /\ cargo[r].state = "running"
    /\ LET d == cargo[r].cwd
           readable == /\ fs[d].exists
                       /\ fs[d].manifest # "none"
                       /\ IsSome(fs[d].main_rs)
       IN IF ~readable
          THEN /\ cargo' = [cargo EXCEPT ![r] =
                      [state |-> "exited", cmd |-> cargo[r].cmd, cwd |-> d,
                       code |-> 101,
                       stderr |-> [text |-> "error", of |-> NoneOpt, ws |-> TRUE]]]
               /\ UNCHANGED fs
          ELSE LET unit == Unwrap(fs[d].main_rs)
                   outcome == RustcOutcome(unit)
               IN /\ cargo' = [cargo EXCEPT ![r] =
                         [state |-> "exited", cmd |-> cargo[r].cmd, cwd |-> d,
                          code |-> IF outcome = "err" THEN 101 ELSE 0,
                          stderr |-> [text |-> outcome, of |-> Some(unit), ws |-> TRUE]]]
                  /\ IF outcome # "err" /\ cargo[r].cmd = "build"
                     THEN fs' = [fs EXCEPT ![d].target = Some(unit)]
                     ELSE UNCHANGED fs
    /\ UNCHANGED <<history, req, pc, execution_timeout, temp_dir, child, to_write, timer, result>>

\* BuildDone without the look at the exit status
BuildDone_Unchecked(r) ==
    /\ pc[r] = "await_build"
    /\ Log(r, "BuildDone")
    /\ cargo[r].state = "exited"
    /\ pc' = [pc EXCEPT ![r] = "spawn"]
    /\ timer' = [timer EXCEPT ![r] = NoneOpt]
    /\ UNCHANGED <<req, execution_timeout, temp_dir, fs, cargo, child, to_write, result>>

\* the build's output arrives within the budget
BuildDone(r) ==
    /\ pc[r] = "await_build"
    /\ Log(r, "BuildDone")
    /\ cargo[r].state = "exited"
    /\ IF cargo[r].code # 0
       THEN RunReturns(r, EmptyString,
                       [text |-> "Compilation error", of |-> cargo[r].stderr.of,
                        ws |-> cargo[r].stderr.ws],
                       "error")
       ELSE /\ pc' = [pc EXCEPT ![r] = "spawn"]
            /\ UNCHANGED result
    /\ timer' = [timer EXCEPT ![r] = NoneOpt]
    /\ UNCHANGED <<req, execution_timeout, temp_dir, fs, cargo, child, to_write>>

\* Ok(Err(e)) after the start: collecting the output fails
BuildIoError(r) ==
    /\ pc[r] = "await_build"
    /\ Log(r, "BuildIoError")
    /\ RunReturns(r, EmptyString, Message("Failed to execute cargo build"), "error")
    /\ timer' = [timer EXCEPT ![r] = NoneOpt]
    /\ UNCHANGED <<req, execution_timeout, temp_dir, fs, cargo, child, to_write>>

\* BuildTimeout with one more try: the first time the budget elapses the build
\* is started again
BuildTimeout_Retry(r) ==
    /\ pc[r] = "await_build"
    /\ Log(r, "BuildTimeout")
    /\ timer' = [timer EXCEPT ![r] = NoneOpt]
    /\ IF \E i \in 1..Len(history[r]) : history[r][i] = "BuildTimeout"
       THEN RunReturns(r, EmptyString, Message("Compilation timed out"), "error")
       ELSE pc' = [pc EXCEPT ![r] = "compile"] /\ UNCHANGED result
    /\ UNCHANGED <<req, execution_timeout, temp_dir, fs, cargo, child, to_write>>

\* Err(_): the 30 seconds elapse; the future is dropped, cargo is not killed
BuildTimeout(r) ==
    /\ pc[r] = "await_build"
    /\ Log(r, "BuildTimeout")
    /\ RunReturns(r, EmptyString, Message("Compilation timed out"), "error")
    /\ timer' = [timer EXCEPT ![r] = NoneOpt]
    /\ UNCHANGED <<req, execution_timeout, temp_dir, fs, cargo, child, to_write>>

\* the exit status of a program: Some(code), or None when a signal ended it; a
\* panic that no boundary catches ends a Rust program with code 101
ProgramExit(program) ==
    CASE program.snippet.run = "exit0" -> Some(0)
      [] program.snippet.run = "exit1" -> Some(1)
      [] program.snippet.run = "exit124" -> Some(124)
      [] program.snippet.run = "panic" ->
            IF program.boundary THEN Some(BoundaryExitCode) ELSE Some(101)
      [] OTHER -> NoneOpt

\* what the program has printed to its standard error when it ends by itself:
\* the panic hook prints the panic's message, and the wrapper's Err(e) arm
\* prints it again after "Error: "
ProgramStderr(program) ==
    CASE program.snippet.run = "exit0" -> ""
      [] program.snippet.run = "panic" ->
            IF program.boundary THEN "panicked: msg; Error: msg" ELSE "panicked: msg"
      [] OTHER -> "Error"

\* StatusOf without the sentinel
StatusOf_NoSentinel(exit) ==
    IF exit = Some(0) THEN "success" ELSE "error"

\* the status compile_and_run derives from the exit status
StatusOf(exit) ==
    IF exit = Some(0) THEN "success"
    ELSE IF exit = Some(StatusSentinel) THEN "timeout"
    ELSE "error"

\* timeout(timeout_seconds, async { cmd.spawn() ... }): the first poll spawns
\* target/release/main, with stdin piped when there is input
SpawnArtifact(r) ==
    /\ pc[r] = "spawn"
    /\ Log(r, "SpawnArtifact")
    /\ LET d == temp_dir[r]
       IN \/ /\ fs[d].exists
             /\ IsSome(fs[d].target)
             /\ child' = [child EXCEPT ![r] =
                   [state |-> "running", program |-> Unwrap(fs[d].target),
                    stdin |-> IF IsSome(req[r].input_data) THEN "open" ELSE "inherit",
                    pipe |-> 0]]
             /\ to_write' = [to_write EXCEPT ![r] =
                   IF IsSome(req[r].input_data) THEN Unwrap(req[r].input_data) ELSE 0]
             /\ timer' = [timer EXCEPT ![r] = Some(execution_timeout[r])]
             /\ pc' = [pc EXCEPT ![r] =
                   IF IsSome(req[r].input_data) THEN "write_stdin" ELSE "await_run"]
             /\ UNCHANGED result
          \/ /\ RunReturns(r, EmptyString, Message("Failed to spawn process"), "error")
             /\ UNCHANGED <<child, to_write, timer>>
    /\ UNCHANGED <<req, execution_timeout, temp_dir, fs, cargo>>

\* stdin.write_all: one more chunk fits into the pipe
WriteChunk(r) ==
    /\ pc[r] = "write_stdin"
    /\ Log(r, "WriteChunk")
    /\ to_write[r] > 0
    /\ child[r].state = "running"
    /\ child[r].pipe < PipeCapacity
    /\ child' = [child EXCEPT ![r].pipe = @ + 1]
    /\ to_write' = [to_write EXCEPT ![r] = @ - 1]
    /\ UNCHANGED <<req, pc, execution_timeout, temp_dir, fs, cargo, timer, result>>

\* WriteAllOk as a single write would behave: Ok after only a part is written
WriteAllOk_Partial(r) ==
    /\ pc[r] = "write_stdin"
    /\ Log(r, "WriteAllOk")
    /\ child' = [child EXCEPT ![r].stdin = "closed"]
    /\ pc' = [pc EXCEPT ![r] = "await_run"]
    /\ UNCHANGED <<req, execution_timeout, temp_dir, fs, cargo, to_write, timer, result>>

\* write_all returns Ok: all of the input is written; wait_with_output begins
\* and closes the stdin handle
WriteAllOk(r) ==
    /\ pc[r] = "write_stdin"
    /\ Log(r, "WriteAllOk")
    /\ to_write[r] = 0
    /\ child' = [child EXCEPT ![r].stdin = "closed"]
    /\ pc' = [pc EXCEPT ![r] = "await_run"]
    /\ UNCHANGED <<req, execution_timeout, temp_dir, fs, cargo, to_write, timer, result>>

\* WriteAllErr that gives the write error to the caller, as the spawn error is
WriteAllErr_Surfaces(r) ==
    /\ pc[r] = "write_stdin"
    /\ Log(r, "WriteAllErr")
    /\ to_write[r] > 0
    /\ child[r].state = "exited"
    /\ child' = [child EXCEPT ![r].stdin = "closed"]
    /\ RunReturns(r, EmptyString, Message("Failed to write to stdin"), "error")
    /\ timer' = [timer EXCEPT ![r] = NoneOpt]
    /\ UNCHANGED <<req, execution_timeout, temp_dir, fs, cargo, to_write>>

\* write_all returns Err (the reader is gone): the error is printed and
\* wait_with_output begins all the same
WriteAllErr(r) ==
    /\ pc[r] = "write_stdin"
    /\ Log(r, "WriteAllErr")
    /\ to_write[r] > 0
    /\ child[r].state = "exited"
    /\ child' = [child EXCEPT ![r].stdin = "closed"]
    /\ pc' = [pc EXCEPT ![r] = "await_run"]
    /\ UNCHANGED <<req, execution_timeout, temp_dir, fs, cargo, to_write, timer, result>>

\* the artifact reads a chunk of its standard input
ChildRead(r) ==
    /\ child[r].state = "running"
    /\ child[r].pipe > 0
    /\ child' = [child EXCEPT ![r].pipe = @ - 1]
    /\ UNCHANGED <<history, req, pc, execution_timeout, temp_dir, fs, cargo, to_write, timer, result>>

\* the artifact ends by what the snippet does
ChildExit(r) ==
    /\ child[r].state = "running"
    /\ child[r].program.snippet.run # "loop"
    /\ child' = [child EXCEPT ![r] =
          [state |-> "exited", program |-> child[r].program, stdin |-> child[r].stdin,
           pipe |-> child[r].pipe, by |-> "snippet",
           code |-> ProgramExit(child[r].program),
           stdout |-> [text |-> "out", of |-> Some(child[r].program), ws |-> TRUE],
           stderr |-> [text |-> ProgramStderr(child[r].program),
                       of |-> Some(child[r].program), ws |-> TRUE]]]
    /\ UNCHANGED <<history, req, pc, execution_timeout, temp_dir, fs, cargo, to_write, timer, result>>

\* WatchdogFires with the exit code of the failure boundary
WatchdogFires_Exit1(r) ==
    /\ child[r].state = "running"
    /\ IsSome(child[r].program.watchdog)
    /\ child' = [child EXCEPT ![r] =
          [state |-> "exited", program |-> child[r].program, stdin |-> child[r].stdin,
           pipe |-> child[r].pipe, by |-> "watchdog",
           code |-> Some(BoundaryExitCode),
           stdout |-> [text |-> "out", of |-> Some(child[r].program), ws |-> TRUE],
           stderr |-> [text |-> "TIMEOUT", of |-> Some(child[r].program), ws |-> TRUE]]]
    /\ UNCHANGED <<history, req, pc, execution_timeout, temp_dir, fs, cargo, to_write, timer, result>>

\* the generated timeout checker wakes up: eprintln!("TIMEOUT ..."), exit(124)
WatchdogFires(r) ==
    /\ child[r].state = "running"
    /\ IsSome(child[r].program.watchdog)
    /\ child' = [child EXCEPT ![r] =
          [state |-> "exited", program |-> child[r].program, stdin |-> child[r].stdin,
           pipe |-> child[r].pipe, by |-> "watchdog",
           code |-> Some(WatchdogExitCode),
           stdout |-> [text |-> "out", of |-> Some(child[r].program), ws |-> TRUE],
           stderr |-> [text |-> "TIMEOUT", of |-> Some(child[r].program), ws |-> TRUE]]]
    /\ UNCHANGED <<history, req, pc, execution_timeout, temp_dir, fs, cargo, to_write, timer, result>>

\* Ok(Ok(output)): the process has ended and its output is collected
RunDone(r) ==
    /\ pc[r] = "await_run"
    /\ Log(r, "RunDone")
    /\ child[r].state = "exited"
    /\ RunReturns(r, Trim(child[r].stdout), Trim(child[r].stderr), StatusOf(child[r].code))
    /\ timer' = [timer EXCEPT ![r] = NoneOpt]
    /\ UNCHANGED <<req, execution_timeout, temp_dir, fs, cargo, child, to_write>>

\* Ok(Err(e)) from wait_with_output
RunIoError(r) ==
    /\ pc[r] = "await_run"
    /\ Log(r, "RunIoError")
    /\ RunReturns(r, EmptyString, Message("Process error"), "error")
    /\ timer' = [timer EXCEPT ![r] = NoneOpt]
    /\ UNCHANGED <<req, execution_timeout, temp_dir, fs, cargo, child, to_write>>

\* RunTimeout of a Command with kill_on_drop(true): dropping the Child kills a
\* process that still runs
RunTimeout_Kills(r) ==
    /\ pc[r] \in {"write_stdin", "await_run"}
    /\ Log(r, "RunTimeout")
    /\ RunReturns(r, EmptyString, Message("Code execution timed out"), "timeout")
    /\ child' = [child EXCEPT ![r] =
          IF @.state = "running"
          THEN [state |-> "exited", program |-> @.program, stdin |-> "closed",
                pipe |-> @.pipe, by |-> "kill", code |-> NoneOpt,
                stdout |-> EmptyString, stderr |-> EmptyString]
          ELSE [@ EXCEPT !.stdin = IF @ = "open" THEN "closed" ELSE @]]
    /\ timer' = [timer EXCEPT ![r] = NoneOpt]
    /\ UNCHANGED <<req, execution_timeout, temp_dir, fs, cargo, to_write>>

\* RunTimeout with the budget around the await alone, not around the write
RunTimeout_AwaitOnly(r) ==
    /\ pc[r] = "await_run"
    /\ Log(r, "RunTimeout")
    /\ RunReturns(r, EmptyString, Message("Code execution timed out"), "timeout")
    /\ timer' = [timer EXCEPT ![r] = NoneOpt]
    /\ UNCHANGED <<req, execution_timeout, temp_dir, fs, cargo, child, to_write>>

\* Err(_): timeout_seconds elapse while the input is written or the process is
\* awaited; the future and its Child are dropped, the process is not killed
RunTimeout(r) ==
    /\ pc[r] \in {"write_stdin", "await_run"}
    /\ Log(r, "RunTimeout")
    /\ RunReturns(r, EmptyString, Message("Code execution timed out"), "timeout")
    /\ child' = [child EXCEPT ![r].stdin = IF @ = "open" THEN "closed" ELSE @]
    /\ timer' = [timer EXCEPT ![r] = NoneOpt]
    /\ UNCHANGED <<req, execution_timeout, temp_dir, fs, cargo, to_write>>

\* a process that still writes below directory d: a cargo that was started there
\* and has not ended
WriterIn(d) ==
    \E q \in Reqs : cargo[q].state = "running" /\ cargo[q].cwd = d

\* DropTempDir of a TempDir that was turned into a plain path: nothing is removed
DropTempDir_Leak(r) ==
    UNCHANGED fs

\* Drop for TempDir: remove_dir_all on the directory, its error discarded. The
\* removal can fail while a process still creates files below the directory
DropTempDir(r) ==
    IF temp_dir[r] = NoDir
    THEN UNCHANGED fs
    ELSE \/ fs' = [fs EXCEPT ![temp_dir[r]] = Removed]
         \/ /\ WriterIn(temp_dir[r])
            /\ UNCHANGED fs

\* the scope of execute_code ends: temp_dir is dropped and the response is the
\* caller's
ExecuteScopeEnd(r) ==
    /\ pc[r] = "scope_end"
    /\ Log(r, "ExecuteScopeEnd")
    /\ req[r].kind = "execute"
    /\ DropTempDir(r)
    /\ pc' = [pc EXCEPT ![r] = "done"]
    /\ UNCHANGED <<req, execution_timeout, temp_dir, cargo, child, to_write, timer, result>>

\* --------------------------------------------------------- validate_syntax

\* a `return` of validate_syntax
ValidateReturns(r, is_valid, errors) ==
    ReturnFrom(r, CodeValidationResponse(is_valid, errors, <<>>))

\* validate_syntax is called; there is no size check
ValidateCall(r, code) ==
    /\ pc[r] = "idle"
    /\ Log(r, "ValidateCall")
    /\ req' = [req EXCEPT ![r] = [kind |-> "validate", code |-> code]]
    /\ pc' = [pc EXCEPT ![r] = "v_temp_dir"]
    /\ UNCHANGED <<execution_timeout, temp_dir, fs, cargo, child, to_write, timer, result>>

\* TempDir::new() of validate_syntax
ValidateTempDirNew(r) ==
    /\ pc[r] = "v_temp_dir"
    /\ Log(r, "ValidateTempDirNew")
    /\ \/ \E d \in DirNames :
            /\ ~fs[d].exists /\ ~fs[d].used
            /\ fs' = [fs EXCEPT ![d] = EmptyDir]
            /\ temp_dir' = [temp_dir EXCEPT ![r] = d]
            /\ pc' = [pc EXCEPT ![r] = "v_src_dir"]
            /\ UNCHANGED result
       \/ /\ ValidateReturns(r, FALSE, <<Message("Failed to create temp directory")>>)
          /\ UNCHANGED <<fs, temp_dir>>
    /\ UNCHANGED <<req, execution_timeout, cargo, child, to_write, timer>>

\* fs::create_dir_all(&src_dir) of validate_syntax
ValidateCreateSrcDir(r) ==
    /\ pc[r] = "v_src_dir"
    /\ Log(r, "ValidateCreateSrcDir")
    /\ \/ /\ fs[temp_dir[r]].exists
          /\ fs' = [fs EXCEPT ![temp_dir[r]].src = TRUE]
          /\ pc' = [pc EXCEPT ![r] = "v_cargo_toml"]
          /\ UNCHANGED result
       \/ /\ ValidateReturns(r, FALSE, <<Message("Failed to create src directory")>>)
          /\ UNCHANGED fs
    /\ UNCHANGED <<req, execution_timeout, temp_dir, cargo, child, to_write, timer>>

\* fs::write(project_path.join("Cargo.toml"), cargo_toml) of validate_syntax
ValidateWriteCargoToml(r) ==
    /\ pc[r] = "v_cargo_toml"
    /\ Log(r, "ValidateWriteCargoToml")
    /\ \/ /\ fs[temp_dir[r]].exists
          /\ fs' = [fs EXCEPT ![temp_dir[r]].manifest = "rust_validate"]
          /\ pc' = [pc EXCEPT ![r] = "v_main_rs"]
          /\ UNCHANGED result
       \/ /\ ValidateReturns(r, FALSE, <<Message("Failed to create Cargo.toml")>>)
          /\ UNCHANGED fs
    /\ UNCHANGED <<req, execution_timeout, temp_dir, cargo, child, to_write, timer>>

\* fs::write(main_rs_path, full_code)
ValidateWriteMainRs(r) ==
    /\ pc[r] = "v_main_rs"
    /\ Log(r, "ValidateWriteMainRs")
    /\ \/ /\ fs[temp_dir[r]].exists /\ fs[temp_dir[r]].src
          /\ fs' = [fs EXCEPT ![temp_dir[r]].main_rs = Some(full_code(req[r].code))]
          /\ pc' = [pc EXCEPT ![r] = "check"]
          /\ UNCHANGED result
       \/ /\ ValidateReturns(r, FALSE, <<Message("Failed to write main.rs")>>)
          /\ UNCHANGED fs
    /\ UNCHANGED <<req, execution_timeout, temp_dir, cargo, child, to_write, timer>>

\* CargoCheckSpawn under the budget of the build
CargoCheckSpawn_BuildBudget(r) ==
    /\ pc[r] = "check"
    /\ Log(r, "CargoCheckSpawn")
    /\ cargo' = [cargo EXCEPT ![r] =
           [state |-> "running", cmd |-> "check", cwd |-> temp_dir[r]]]
    /\ timer' = [timer EXCEPT ![r] = Some(BuildBudget)]
    /\ pc' = [pc EXCEPT ![r] = "await_check"]
    /\ UNCHANGED <<req, execution_timeout, temp_dir, fs, child, to_write, result>>

\* timeout(10 s, Command::new("cargo") check ... .output()): the first poll
\* starts cargo, or fails to
CargoCheckSpawn(r) ==
    /\ pc[r] = "check"
    /\ Log(r, "CargoCheckSpawn")
    /\ \/ /\ cargo' = [cargo EXCEPT ![r] =
                 [state |-> "running", cmd |-> "check", cwd |-> temp_dir[r]]]
          /\ timer' = [timer EXCEPT ![r] = Some(CheckBudget)]
          /\ pc' = [pc EXCEPT ![r] = "await_check"]
          /\ UNCHANGED result
       \/ /\ ValidateReturns(r, FALSE, <<Message("Failed to execute cargo check")>>)
          /\ UNCHANGED <<cargo, timer>>
    /\ UNCHANGED <<req, execution_timeout, temp_dir, fs, child, to_write>>

\* CheckDone with the two branches swapped
CheckDone_Swapped(r) ==
    /\ pc[r] = "await_check"
    /\ Log(r, "CheckDone")
    /\ cargo[r].state = "exited"
    /\ IF cargo[r].code # 0
       THEN ValidateReturns(r, TRUE, <<>>)
       ELSE ValidateReturns(r, FALSE, <<cargo[r].stderr>>)
    /\ timer' = [timer EXCEPT ![r] = NoneOpt]
    /\ UNCHANGED <<req, execution_timeout, temp_dir, fs, cargo, child, to_write>>

\* the check's output arrives within the budget
CheckDone(r) ==
    /\ pc[r] = "await_check"
    /\ Log(r, "CheckDone")
    /\ cargo[r].state = "exited"
    /\ IF cargo[r].code = 0
       THEN ValidateReturns(r, TRUE, <<>>)
       ELSE ValidateReturns(r, FALSE, <<cargo[r].stderr>>)
    /\ timer' = [timer EXCEPT ![r] = NoneOpt]
    /\ UNCHANGED <<req, execution_timeout, temp_dir, fs, cargo, child, to_write>>

\* Ok(Err(e)) after the start: collecting the output fails
CheckIoError(r) ==
    /\ pc[r] = "await_check"
    /\ Log(r, "CheckIoError")
    /\ ValidateReturns(r, FALSE, <<Message("Failed to execute cargo check")>>)
    /\ timer' = [timer EXCEPT ![r] = NoneOpt]
    /\ UNCHANGED <<req, execution_timeout, temp_dir, fs, cargo, child, to_write>>

\* Err(_): the 10 seconds elapse; the future is dropped, cargo is not killed
CheckTimeout(r) ==
    /\ pc[r] = "await_check"
    /\ Log(r, "CheckTimeout")
    /\ ValidateReturns(r, FALSE, <<Message("Syntax check timed out")>>)
    /\ timer' = [timer EXCEPT ![r] = NoneOpt]
    /\ UNCHANGED <<req, execution_timeout, temp_dir, fs, cargo, child, to_write>>

\* the scope of validate_syntax ends: temp_dir is dropped and the response is
\* the caller's
ValidateScopeEnd(r) ==
    /\ pc[r] = "scope_end"
    /\ Log(r, "ValidateScopeEnd")
    /\ req[r].kind = "validate"
    /\ DropTempDir(r)
    /\ pc' = [pc EXCEPT ![r] = "done"]
    /\ UNCHANGED <<req, execution_timeout, temp_dir, cargo, child, to_write, timer, result>>

\* ------------------------------------------------------ the specifications

\* the steps of the handler task of request r
TaskStep(r) ==
    \/ TempDirNew(r)
    \/ CreateSrcDir(r)
    \/ WriteCargoToml(r)
    \/ WriteMainRs(r)
    \/ CargoBuildSpawn(r)
    \/ BuildTimeout(r)
    \/ BuildDone(r)
    \/ BuildIoError(r)
    \/ SpawnArtifact(r)
    \/ WriteChunk(r)
    \/ WriteAllOk(r)
    \/ WriteAllErr(r)
    \/ RunTimeout(r)
    \/ RunDone(r)
    \/ RunIoError(r)
    \/ ExecuteScopeEnd(r)
    \/ ValidateTempDirNew(r)
    \/ ValidateCreateSrcDir(r)
    \/ ValidateWriteCargoToml(r)
    \/ ValidateWriteMainRs(r)
    \/ CargoCheckSpawn(r)
    \/ CheckTimeout(r)
    \/ CheckDone(r)
    \/ CheckIoError(r)
    \/ ValidateScopeEnd(r)

\* the steps of the processes request r started
ProcessStep(r) ==
    \/ CargoExit(r)
    \/ ChildRead(r)
    \/ ChildExit(r)
    \/ WatchdogFires(r)

\* the requests of R arrive: Execute requests of the given set, Validate
\* requests for the given snippets
NextOver(R, executions, validations) ==
    \E r \in R :
        \/ \E e \in executions : ExecuteCall(r, e.code, e.input_data, e.timeout)
        \/ \E code \in validations : ValidateCall(r, code)
        \/ TaskStep(r)
        \/ ProcessStep(r)

\* one request, over every snippet, input and override
Next ==
    NextOver({"r1"}, AllExecutionRequests, AllSnippets)

Spec ==
    Init /\ [][Next]_vars

\* two requests side by side
PairExecutions ==
    {ExecutionRequest(Snippet(<<"stmt">>, 10, "clean", b), NoneOpt, NoneOpt) :
        b \in {"exit0", "exit1"}}
    \cup {ExecutionRequest(Snippet(<<"stmt">>, 10, "clean", "exit0"), Some(1), NoneOpt)}

PairValidations ==
    {Snippet(<<"stmt">>, 10, "clean", "exit0")}

NextPair ==
    NextOver(Reqs, PairExecutions, PairValidations)

PairSpec ==
    Init /\ [][NextPair]_vars

\* the runtime polls a handler task whenever the future it awaits is ready, the
\* timer of an armed budget goes off, and a file system call returns; nothing is
\* assumed of the cargo and artifact processes
LiveSpec ==
    Spec /\ \A r \in Reqs : WF_vars(TaskStep(r))

\* ------------------------------------------------------------- the claims

Statuses == {"success", "error", "timeout"}

\* the call of r has produced its response (its scope is ending or has ended)
Computed(r) == pc[r] \in {"scope_end", "done"}

\* the response of r is the caller's
Returned(r) == pc[r] = "done"

IsExecute(r) == req[r].kind = "execute"
IsValidate(r) == req[r].kind = "validate"

Took(r, step) == \E i \in 1..Len(history[r]) : history[r][i] = step

\* the step by which the call of r produced its response
ReturnStep(r) ==
    IF Returned(r) THEN history[r][Len(history[r]) - 1] ELSE history[r][Len(history[r])]

\* the steps that touch the file system or start a process
EffectSteps ==
    {"TempDirNew", "CreateSrcDir", "WriteCargoToml", "WriteMainRs", "CargoBuildSpawn",
     "SpawnArtifact", "WriteChunk"}

\* a snippet of more than 50 kilobytes (of 1024 bytes)
OverCeiling(code) == code.len > 51200

\* C1: an Execute request whose snippet is larger than 50 KB gets status=error
\* and elapsedSeconds=0, with no Workspace created and no compiler or artifact
\* started; and a response produced before any file system or process action
\* is always that of the size check.
C1_SizeGuard ==
    \A r \in Reqs :
        IsExecute(r) =>
            /\ OverCeiling(req[r].code) =>
                  /\ Computed(r)
                  /\ result[r].status = "error"
                  /\ result[r].execution_time = "0.0"
                  /\ temp_dir[r] = NoDir
                  /\ \A d \in DirNames : ~fs[d].exists /\ ~fs[d].used
                  /\ cargo[r].state = "none"
                  /\ child[r].state = "none"
                  /\ \A e \in EffectSteps : ~Took(r, e)
            /\ (Computed(r) /\ \A e \in EffectSteps : ~Took(r, e)) =>
                  OverCeiling(req[r].code)

C1_Witness ==
    \E r \in Reqs :
        /\ IsExecute(r) /\ Returned(r)
        /\ req[r].code.len = 51201
        /\ result[r].status = "error"

\* C2: the resolved timeout is the override for every override in (0, 60], and
\* the default 30 when the override is absent or above 60; an override above 60
\* is not rejected (the request goes on to its Workspace), and the resolved
\* timeout, which is the budget of the run, never exceeds 60.
C2_ResolvedTimeout ==
    \A r \in Reqs :
        IsExecute(r) =>
            LET t == req[r].timeout
            IN /\ (IsSome(t) /\ 0 < Unwrap(t) /\ Unwrap(t) <= 60) =>
                      execution_timeout[r] = Unwrap(t)
               /\ (~IsSome(t) \/ Unwrap(t) > 60) => execution_timeout[r] = 30
               /\ execution_timeout[r] <= 60
               /\ (history[r] = <<"ExecuteCall">> /\ ~OverCeiling(req[r].code)) =>
                      pc[r] = "temp_dir"
               /\ pc[r] \in {"write_stdin", "await_run"} =>
                      timer[r] = Some(execution_timeout[r])

C2_Witness ==
    \E r \in Reqs :
        /\ IsExecute(r)
        /\ req[r].timeout = Some(61)
        /\ pc[r] = "await_run"
        /\ timer[r] = Some(30)

\* C3: when a call that created a Workspace has returned its result, the
\* Workspace directory is gone.
C3_NoWorkspaceSurvives ==
    \A r \in Reqs :
        (Returned(r) /\ temp_dir[r] # NoDir) => ~fs[temp_dir[r]].exists

\* the call of r has begun and not yet returned
InFlight(r) == pc[r] \notin {"idle", "done"}

\* the source unit of the request of r
OwnUnit(r) ==
    IF IsExecute(r)
    THEN create_restricted_code(req[r].code, execution_timeout[r])
    ELSE full_code(req[r].code)

\* C4: requests that are in flight together have different Workspaces; each
\* builds in its own Workspace, whose source and artifact are made of its own
\* snippet, runs that artifact, and takes its result from the output of its own
\* artifact process.
C4_Isolation ==
    \A r \in Reqs :
        /\ \A q \in Reqs \ {r} :
              (InFlight(r) /\ InFlight(q) /\ temp_dir[r] # NoDir /\ temp_dir[q] # NoDir)
                  => temp_dir[r] # temp_dir[q]
        /\ cargo[r].state # "none" => cargo[r].cwd = temp_dir[r]
        /\ (InFlight(r) /\ temp_dir[r] # NoDir /\ fs[temp_dir[r]].exists) =>
              /\ fs[temp_dir[r]].main_rs \in {NoneOpt, Some(OwnUnit(r))}
              /\ fs[temp_dir[r]].target \in {NoneOpt, Some(OwnUnit(r))}
        /\ child[r].state # "none" => child[r].program = OwnUnit(r)
        /\ (IsExecute(r) /\ Computed(r) /\ ReturnStep(r) = "RunDone") =>
              /\ result[r].output = Trim(child[r].stdout)
              /\ result[r].error = Trim(child[r].stderr)
              /\ result[r].output.of = Some(OwnUnit(r))

C4_Witness ==
    /\ IsExecute("r1") /\ IsExecute("r2")
    /\ req["r1"] = req["r2"]
    /\ pc["r1"] = "await_run" /\ pc["r2"] = "await_run"
    /\ temp_dir["r1"] # temp_dir["r2"]

\* C5: every Execute request eventually returns a result whose status is
\* success, error or timeout, whatever its processes do, and a result once
\* produced is never replaced.
C5_EventuallyReturns ==
    /\ \A r \in Reqs :
          IsExecute(r) ~>
              (Returned(r) /\ result[r].kind = "execution" /\ result[r].status \in Statuses)
    /\ [][\A r \in Reqs : result[r] # NoResult => result'[r] = result[r]]_vars

\* the request has returned while its compiler or its artifact still runs
C5_Witness ==
    \E r \in Reqs :
        /\ IsExecute(r) /\ Returned(r)
        /\ \/ cargo[r].state = "running"
           \/ child[r].state = "running" /\ to_write[r] > 0

\* C6: the status of a result made by the RunStage: error when the spawn
\* fails; for a process that ended within the budget, success for exit code 0,
\* timeout for exit code 124, error for any other end; timeout when the budget
\* elapses; error when collecting the output fails. There is no other status.
C6_RunStageStatus ==
    \A r \in Reqs :
        (IsExecute(r) /\ Computed(r) /\ Took(r, "SpawnArtifact")) =>
            LET step == ReturnStep(r)
                status == result[r].status
            IN /\ status \in Statuses
               /\ step \in {"SpawnArtifact", "RunDone", "RunTimeout", "RunIoError"}
               /\ step = "SpawnArtifact" => status = "error" /\ child[r].state = "none"
               /\ step = "RunTimeout" => status = "timeout"
               /\ step = "RunIoError" => status = "error"
               /\ step = "RunDone" =>
                     /\ child[r].state = "exited"
                     /\ child[r].code = Some(0) => status = "success"
                     /\ child[r].code = Some(124) => status = "timeout"
                     /\ child[r].code \notin {Some(0), Some(124)} => status = "error"

C6_Witness ==
    \E r \in Reqs :
        /\ IsExecute(r) /\ Returned(r)
        /\ ReturnStep(r) = "RunDone"
        /\ child[r].code = Some(124)
        /\ result[r].status = "timeout"

\* C7: the artifact is spawned only after cargo build has exited with code 0
\* and that was seen within the budget of 30 seconds, which is the budget
\* whatever the caller's override; a build that cannot be started, times out or
\* fails gives status=error without any artifact being spawned.
C7_BuildGatesRun ==
    \A r \in Reqs :
        IsExecute(r) =>
            /\ Took(r, "SpawnArtifact") =>
                  /\ cargo[r].state = "exited" /\ cargo[r].code = 0
                  /\ Took(r, "BuildDone") /\ ~Took(r, "BuildTimeout")
            /\ child[r].state # "none" => Took(r, "SpawnArtifact")
            /\ pc[r] = "await_build" => timer[r] = Some(30)
            /\ (Computed(r) /\ ReturnStep(r) \in
                    {"CargoBuildSpawn", "BuildTimeout", "BuildIoError", "BuildDone"}) =>
                  /\ result[r].status = "error"
                  /\ child[r].state = "none"
                  /\ ~Took(r, "SpawnArtifact")
            /\ (Computed(r) /\ ReturnStep(r) = "BuildDone") => cargo[r].code # 0

C7_Witness ==
    \E r \in Reqs :
        /\ IsExecute(r) /\ Returned(r)
        /\ req[r].timeout = Some(1)
        /\ ReturnStep(r) = "BuildTimeout"
        /\ result[r].status = "error"
        /\ child[r].state = "none"

\* the snippet of r is bare: its text nowhere holds "fn main()"
Bare(r) ==
    \A i \in 1..Len(req[r].code.text) :
        req[r].code.text[i] \notin {"fn main()", "// fn main()"}

\* C8: when the artifact of a snippet that loops forever was spawned and
\* collecting its output did not fail, the result has status=timeout: for a bare
\* snippet through the outer budget or through the watchdog's exit with code
\* 124, whichever comes first; for a self-contained snippet through the outer
\* budget alone, the process still running.
C8_LoopTimesOut ==
    \A r \in Reqs :
        (/\ IsExecute(r) /\ Computed(r)
         /\ child[r].state # "none"
         /\ req[r].code.run = "loop") =>
            LET step == ReturnStep(r)
            IN /\ step \in {"RunTimeout", "RunDone", "RunIoError"}
               /\ step # "RunIoError" => result[r].status = "timeout"
               /\ step = "RunDone" =>
                     /\ Bare(r)
                     /\ child[r].by = "watchdog"
                     /\ child[r].code = Some(124)
               /\ ~Bare(r) => child[r].state = "running"

C8_Witness ==
    \E r \in Reqs :
        /\ IsExecute(r) /\ Returned(r)
        /\ req[r].code.run = "loop" /\ Bare(r)
        /\ ReturnStep(r) = "RunDone"
        /\ child[r].by = "watchdog"
        /\ result[r].status = "timeout"

ValidateSteps ==
    {"ValidateCall", "ValidateTempDirNew", "ValidateCreateSrcDir", "ValidateWriteCargoToml",
     "ValidateWriteMainRs", "CargoCheckSpawn", "CheckDone", "CheckIoError", "CheckTimeout",
     "ValidateScopeEnd"}

\* C9: Validate never spawns an artifact and never enters the build or the run
\* of Execute: it runs cargo check alone, under a budget of 10 seconds, leaves no
\* artifact in its Workspace, goes on to its Workspace whatever the size of the
\* snippet, and its result has no output or error text of a run.
C9_ValidateNeverRuns ==
    \A r \in Reqs :
        IsValidate(r) =>
            /\ child[r].state = "none"
            /\ \A i \in 1..Len(history[r]) : history[r][i] \in ValidateSteps
            /\ cargo[r].state # "none" => cargo[r].cmd = "check"
            /\ (temp_dir[r] # NoDir /\ fs[temp_dir[r]].exists) =>
                  fs[temp_dir[r]].target = NoneOpt
            /\ pc[r] = "await_check" => timer[r] = Some(10)
            /\ history[r] = <<"ValidateCall">> => pc[r] = "v_temp_dir"
            /\ Computed(r) =>
                  DOMAIN result[r] = {"kind", "is_valid", "errors", "warnings"}

C9_Witness ==
    \E r \in Reqs :
        /\ IsValidate(r) /\ Returned(r)
        /\ OverCeiling(req[r].code)
        /\ ReturnStep(r) = "CheckDone"
        /\ result[r].is_valid

\* the check of r completed within its budget and succeeded
CheckSucceeded(r) ==
    /\ ReturnStep(r) = "CheckDone"
    /\ cargo[r].state = "exited"
    /\ cargo[r].code = 0

\* C10 as claimed: isValid=true only if the check completed within its budget,
\* succeeded and produced no diagnostics; otherwise isValid=false with a
\* non-empty errors list; warnings is always empty.
C10_ValidOnlyWithoutDiagnostics ==
    \A r \in Reqs :
        (IsValidate(r) /\ Computed(r)) =>
            LET quiet == CheckSucceeded(r) /\ cargo[r].stderr.text = "clean"
            IN /\ result[r].is_valid => quiet
               /\ ~quiet => (~result[r].is_valid /\ result[r].errors # <<>>)
               /\ result[r].warnings = <<>>

\* C10 as amended: isValid=true exactly when the check completed within its
\* budget and exited successfully, whether or not it wrote diagnostics, and then
\* errors is empty; otherwise isValid=false and errors holds one text, the raw
\* stderr of the failed check or the failure message; warnings is always empty.
C10_ValidIffCheckSucceeds ==
    \A r \in Reqs :
        (IsValidate(r) /\ Computed(r)) =>
            /\ result[r].is_valid <=> CheckSucceeded(r)
            /\ result[r].is_valid => result[r].errors = <<>>
            /\ ~result[r].is_valid =>
                  /\ Len(result[r].errors) = 1
                  /\ ReturnStep(r) = "CheckDone" => result[r].errors[1] = cargo[r].stderr
                  /\ ReturnStep(r) # "CheckDone" =>
                        /\ result[r].errors[1].of = NoneOpt
                        /\ result[r].errors[1].text # ""
            /\ result[r].warnings = <<>>

C10_Witness ==
    \E r \in Reqs :
        /\ IsValidate(r) /\ Returned(r)
        /\ CheckSucceeded(r)
        /\ cargo[r].stderr.text = "warn"
        /\ result[r].is_valid

\* C11: when the artifact of a bare snippet ends because the snippet panics,
\* before the watchdog fires and before the outer run budget elapses, the
\* wrapper's boundary has caught the panic: the process has exited with code 1,
\* which is neither 0 nor the sentinel 124, and execute_code returns a response
\* with status=error whose error text is the standard error of the request's
\* own unit and holds the panic's message.
C11_PanicIsError ==
    \A r \in Reqs :
        (/\ IsExecute(r) /\ Computed(r) /\ Bare(r)
         /\ req[r].code.run = "panic"
         /\ ReturnStep(r) = "RunDone"
         /\ child[r].by = "snippet") =>
            /\ child[r].code = Some(1)
            /\ child[r].code \notin {Some(0), Some(StatusSentinel)}
            /\ result[r].kind = "execution"
            /\ result[r].status = "error"
            /\ result[r].error.text = "panicked: msg; Error: msg"
            /\ result[r].error.of = Some(OwnUnit(r))
            /\ ~result[r].error.ws

C11_Witness ==
    \E r \in Reqs :
        /\ IsExecute(r) /\ Returned(r) /\ Bare(r)
        /\ req[r].code.run = "panic"
        /\ ReturnStep(r) = "RunDone"
        /\ child[r].by = "snippet"
        /\ child[r].code = Some(1)
        /\ result[r].status = "error"

\* wait_with_output of r's artifact has begun
Awaiting(r) ==
    \/ Took(r, "WriteAllOk") \/ Took(r, "WriteAllErr")
    \/ (Took(r, "SpawnArtifact") /\ child[r].state # "none" /\ child[r].stdin = "inherit")

\* C12 as stated: the artifact's standard input is a pipe exactly when the
\* request carries input, and whenever the wait for the artifact has begun for a
\* request with input, all of the input has been written and the pipe is closed,
\* also when the process ended before it read the input.
C12_InputFullyWritten ==
    \A r \in Reqs :
        (IsExecute(r) /\ child[r].state # "none") =>
            /\ child[r].stdin \in {"open", "closed"} <=> IsSome(req[r].input_data)
            /\ (IsSome(req[r].input_data) /\ Awaiting(r)) =>
                  /\ to_write[r] = 0
                  /\ child[r].stdin = "closed"

\* C12: the artifact's standard input is a pipe exactly when the request carries
\* input; whenever the wait for the artifact has begun for a request with input,
\* the pipe is closed, and either write_all returned Ok and all of the input was
\* written, or write_all failed because the process had already ended with a
\* part of the input unwritten, a failure the run stage passes over.
C12_InputWrittenOrWriteFailed ==
    \A r \in Reqs :
        (IsExecute(r) /\ child[r].state # "none") =>
            /\ child[r].stdin \in {"open", "closed"} <=> IsSome(req[r].input_data)
            /\ (IsSome(req[r].input_data) /\ Awaiting(r)) =>
                  /\ child[r].stdin = "closed"
                  /\ \/ Took(r, "WriteAllOk") /\ to_write[r] = 0
                     \/ /\ Took(r, "WriteAllErr")
                        /\ to_write[r] > 0
                        /\ child[r].state = "exited"
            /\ ~IsSome(req[r].input_data) => to_write[r] = 0 /\ child[r].pipe = 0

C12_Witness ==
    \E r \in Reqs :
        /\ IsExecute(r) /\ Returned(r)
        /\ req[r].input_data = Some(2)
        /\ Took(r, "WriteChunk") /\ Took(r, "WriteAllErr")
        /\ to_write[r] = 1
        /\ child[r].stdin = "closed"
        /\ ReturnStep(r) = "RunDone"

\* the stage of execute_code a step belongs to: 1 SizeGuard, 2 Workspace,
\* 3 Build, 4 Run, 5 the end of the call with the assembled response
StageOf(step) ==
    CASE step = "ExecuteCall" -> 1
      [] step \in {"TempDirNew", "CreateSrcDir", "WriteCargoToml", "WriteMainRs"} -> 2
      [] step \in {"CargoBuildSpawn", "BuildDone", "BuildTimeout", "BuildIoError"} -> 3
      [] step \in {"SpawnArtifact", "WriteChunk", "WriteAllOk", "WriteAllErr",
                   "RunDone", "RunTimeout", "RunIoError"} -> 4
      [] OTHER -> 5

\* C13: the steps of one Execute call are taken stage by stage in the order
\* SizeGuard, Workspace, Build, Run, Assemble, a stage beginning only after the
\* stage before it was entered and left; and when the response is assembled,
\* neither the cargo build process nor the artifact process of the call is
\* still running.
C13_StagesInOrder ==
    \A r \in Reqs :
        IsExecute(r) =>
            /\ \A i \in 1..Len(history[r]), j \in 1..Len(history[r]) :
                  i < j => StageOf(history[r][i]) <= StageOf(history[r][j])
            /\ \A i \in 2..Len(history[r]) :
                  StageOf(history[r][i]) \in 2..4 =>
                      StageOf(history[r][i]) - StageOf(history[r][i - 1]) \in {0, 1}
            /\ Computed(r) =>
                  /\ cargo[r].state # "running"
                  /\ child[r].state # "running"

\* how often r has taken the step
Times(r, step) ==
    Cardinality({i \in 1..Len(history[r]) : history[r][i] = step})

\* C14: nothing in execute_code is tried again. Every step but the writing of
\* one more chunk of input is taken at most once in a call, so cargo build is
\* started at most once and the artifact is spawned at most once; a response,
\* once set, ends the call; and a call that ended with a failure in the
\* Workspace stage has started neither process, one that ended with a failure in
\* the Build stage has started no artifact.
C14_NothingRetried ==
    \A r \in Reqs :
        IsExecute(r) =>
            /\ \A i \in 1..Len(history[r]) :
                  history[r][i] # "WriteChunk" => Times(r, history[r][i]) = 1
            /\ Times(r, "CargoBuildSpawn") <= 1
            /\ Times(r, "SpawnArtifact") <= 1
            /\ cargo[r].state # "none" => Times(r, "CargoBuildSpawn") = 1
            /\ child[r].state # "none" => Times(r, "SpawnArtifact") = 1
            /\ result[r] # NoResult <=> Computed(r)
            /\ (Computed(r) /\ result[r].status # "success") =>
                  /\ StageOf(ReturnStep(r)) <= 2 =>
                        cargo[r].state = "none" /\ child[r].state = "none"
                  /\ StageOf(ReturnStep(r)) = 3 =>
                        /\ child[r].state = "none"
                        /\ ~Took(r, "SpawnArtifact")
                  /\ \A i \in 1..Len(history[r]) :
                        StageOf(history[r][i]) <= StageOf(ReturnStep(r))
                        \/ history[r][i] = "ExecuteScopeEnd"

C14_Witness ==
    \E r \in Reqs :
        /\ IsExecute(r) /\ Returned(r)
        /\ ReturnStep(r) = "BuildDone"
        /\ result[r].status = "error"
        /\ Times(r, "CargoBuildSpawn") = 1
        /\ Times(r, "SpawnArtifact") = 0
        /\ child[r].state = "none"

C16_TimeoutLeavesProcess ==
    \A r \in Reqs :
        (IsExecute(r) /\ Computed(r) /\ ReturnStep(r) = "RunTimeout") =>
            /\ result[r].status = "timeout"
            /\ result[r].output = EmptyString
            /\ child[r].state \in {"running", "exited"}
            /\ child[r].state = "exited" => child[r].by \in {"snippet", "watchdog"}
            /\ (req[r].code.run = "loop" /\ ~Bare(r)) => child[r].state = "running"

C16_Witness ==
    \E r \in Reqs :
        /\ IsExecute(r) /\ Returned(r)
        /\ ReturnStep(r) = "RunTimeout"
        /\ result[r].status = "timeout"
        /\ child[r].state = "running"

\* C17: the unit execute_code writes to src/main.rs holds the snippet and the
\* prefixed imports, and it holds the wrapper with the watchdog (set to the
\* resolved timeout) and the catch_unwind boundary exactly when the snippet's
\* text nowhere holds "fn main()", be it in a comment; otherwise it holds
\* neither. The artifact of a self-contained snippet is never ended by a
\* watchdog, so a timeout status of such a request that comes from elapsed time
\* comes from the outer run budget: any other timeout status is the snippet's
\* own exit.
C17_HarnessIffNoMarker ==
    \A r \in Reqs :
        IsExecute(r) =>
            /\ (temp_dir[r] # NoDir /\ fs[temp_dir[r]].exists
                    /\ IsSome(fs[temp_dir[r]].main_rs)) =>
                  LET unit == Unwrap(fs[temp_dir[r]].main_rs)
                  IN /\ unit.snippet = req[r].code
                     /\ unit.imports = "exec"
                     /\ unit.wrapped <=> Bare(r)
                     /\ IsSome(unit.watchdog) <=> Bare(r)
                     /\ unit.boundary <=> Bare(r)
                     /\ Bare(r) => unit.watchdog = Some(execution_timeout[r])
            /\ (~Bare(r) /\ child[r].state # "none") =>
                  /\ child[r].program.snippet = req[r].code
                  /\ ~child[r].program.wrapped
                  /\ child[r].program.watchdog = NoneOpt
                  /\ ~child[r].program.boundary
                  /\ child[r].state = "exited" => child[r].by = "snippet"
            /\ (~Bare(r) /\ Computed(r) /\ result[r].status = "timeout") =>
                  \/ ReturnStep(r) = "RunTimeout"
                  \/ /\ ReturnStep(r) = "RunDone"
                     /\ child[r].by = "snippet"
                     /\ req[r].code.run = "exit124"

C17_Witness ==
    \E r \in Reqs :
        /\ IsExecute(r) /\ Computed(r) /\ ~Bare(r)
        /\ req[r].code.run = "loop"
        /\ temp_dir[r] # NoDir /\ fs[temp_dir[r]].exists
        /\ fs[temp_dir[r]].main_rs =
              Some([snippet |-> req[r].code, imports |-> "exec", wrapped |-> FALSE,
                    watchdog |-> NoneOpt, boundary |-> FALSE])
        /\ ReturnStep(r) = "RunTimeout"
        /\ result[r].status = "timeout"
        /\ child[r].state = "running"

\* the removal of r's temporary directory failed when the call ended
RemovalFailed(r) ==
    Returned(r) /\ temp_dir[r] # NoDir /\ fs[temp_dir[r]].exists

\* a failed write of the input has no part in the response of r: the call goes
\* on to await the artifact, and what was collected from the artifact that has
\* ended gives output, error and status
WriteFailureIgnored(r) ==
    (IsExecute(r) /\ Took(r, "WriteAllErr")) =>
        /\ pc[r] \in {"await_run", "scope_end", "done"}
        /\ Computed(r) =>
              /\ ReturnStep(r) \in {"RunDone", "RunTimeout", "RunIoError"}
              /\ ReturnStep(r) = "RunDone" =>
                    /\ result[r].output = Trim(child[r].stdout)
                    /\ result[r].error = Trim(child[r].stderr)
                    /\ result[r].status = StatusOf(child[r].code)
                    /\ child[r].code = Some(0) => result[r].status = "success"

C19_TimeoutOnlyByTime ==
    \A r \in Reqs :
        (IsExecute(r) /\ Computed(r) /\ result[r].status = "timeout") =>
            /\ Took(r, "BuildDone")
            /\ cargo[r].state = "exited" /\ cargo[r].code = 0
            /\ \/ ReturnStep(r) = "RunTimeout"
               \/ ReturnStep(r) = "RunDone" /\ child[r].by = "watchdog"
            /\ child[r].program.watchdog = NoneOpt => ReturnStep(r) = "RunTimeout"

\* C20: while cargo or the artifact that a call started in its temporary
\* directory is still running, the directory has not been removed, also after a
\* build timeout and after a run timeout.
C20_NoProcessInRemovedWorkspace ==
    \A r \in Reqs :
        (temp_dir[r] # NoDir /\ fs[temp_dir[r]] = Removed) =>
            /\ cargo[r].state # "running"
            /\ child[r].state # "running"

====
